---- MODULE Spec2Model ----
(***************************************************************************)
(* finedata-mcp: a protocol adapter exposing the FineData scraping API as  *)
(* MCP tools.  The model covers the configuration loader (config.py), the  *)
(* API client (client.py), the tool handlers and their dispatch (tools.py) *)
(* and the process entry point (server.py).                                *)
(*                                                                         *)
(* Conventions.  A Python dict is a function on its keys; an Optional      *)
(* value is a sequence of length at most one (None is the empty sequence). *)
(* A call that can raise returns a record [raised, exc, value, w] where w  *)
(* is the state of the process after the call.  A formatted text is the    *)
(* sequence of its lines, a line the sequence of the pieces its f-string   *)
(* joins; integers are rendered with ToString.                             *)
(***************************************************************************)
EXTENDS Integers, Sequences, FiniteSets, TLC

VARIABLES env, pc, exit_code, w, last, log, served, tasks

vars == <<env, pc, exit_code, w, last, log, served, tasks>>

----------------------------------------------------------------------------
(* Bounds of the model *)

MaxConns == 2

(* the coroutines that use the shared client concurrently *)
NumTasks == 2

LongBatch == 101

----------------------------------------------------------------------------
(* Python values *)

None == <<>>

Some(v) == <<v>>

EmptyDict == <<>>

Get(d, k, default) == IF k \in DOMAIN d THEN d[k] ELSE default

GetOpt(d, k) == IF k \in DOMAIN d THEN Some(d[k]) ELSE None

(* {**a, **b}: the keys of both, b's value where both have one *)
Merge(a, b) == b @@ a

NoExc == [type |-> "", msg |-> <<>>]

Returned(world, v) == [raised |-> FALSE, exc |-> NoExc, value |-> v, w |-> world]

Raised(world, t, m) ==
  [raised |-> TRUE, exc |-> [type |-> t, msg |-> m], value |-> None, w |-> world]

Repeat(v, n) == [i \in 1..n |-> v]

(* "r = <call>; <rest>": the rest runs on the value the call returned *)
Let(r, Rest(_)) == Rest(r)

(* the same where the call may raise: an exception ends the caller too *)
Try(r, Rest(_)) == IF r.raised THEN r ELSE Rest(r)

----------------------------------------------------------------------------
(* config.py *)

DefaultApiUrl == "https://api.finedata.ai"

DefaultTimeoutText == <<"1", "8", "0">>

Digits == <<"0", "1", "2", "3", "4", "5", "6", "7", "8", "9">>

DigitValue(c) == (CHOOSE i \in 1..10 : Digits[i] = c) - 1

IsDigit(c) == \E i \in 1..10 : Digits[i] = c

IsIntText(s) == Len(s) > 0 /\ \A i \in 1..Len(s) : IsDigit(s[i])

RECURSIVE ParseInt(_)
ParseInt(s) ==
  IF Len(s) = 0 THEN 0
  ELSE 10 * ParseInt(SubSeq(s, 1, Len(s) - 1)) + DigitValue(s[Len(s)])

(* a plausible slip: only an absent variable is tested, and the default "" *)
(* is never absent, so an empty credential is accepted                     *)
from_env_accepts_empty(e) ==
  LET ttext == Get(e, "FINEDATA_TIMEOUT", DefaultTimeoutText)
  IN  IF ~IsIntText(ttext)
        THEN [raised |-> TRUE,
              exc |-> [type |-> "ValueError",
                       msg |-> <<"invalid literal for int() with base 10">>],
              value |-> None]
      ELSE [raised |-> FALSE, exc |-> NoExc,
            value |-> Some([api_key |-> Get(e, "FINEDATA_API_KEY", ""),
                            api_url |-> Get(e, "FINEDATA_API_URL", DefaultApiUrl),
                            timeout |-> ParseInt(ttext)])]

from_env(e) ==
  LET api_key == Get(e, "FINEDATA_API_KEY", "")
      ttext   == Get(e, "FINEDATA_TIMEOUT", DefaultTimeoutText)
  IN  IF api_key = ""
        THEN [raised |-> TRUE,
              exc |-> [type |-> "ValueError",
                       msg |-> <<"FINEDATA_API_KEY environment variable is required. ">>],
              value |-> None]
      ELSE IF ~IsIntText(ttext)
        THEN [raised |-> TRUE,
              exc |-> [type |-> "ValueError",
                       msg |-> <<"invalid literal for int() with base 10">>],
              value |-> None]
      ELSE [raised |-> FALSE, exc |-> NoExc,
            value |-> Some([api_key |-> api_key,
                            api_url |-> Get(e, "FINEDATA_API_URL", DefaultApiUrl),
                            timeout |-> ParseInt(ttext)])]

get_config(world, e) ==
  IF world._config = None
    THEN Let(from_env(e), LAMBDA r :
           IF r.raised THEN Raised(world, r.exc.type, r.exc.msg)
           ELSE Returned([world EXCEPT !._config = r.value], r.value[1]))
  ELSE Returned(world, world._config[1])

----------------------------------------------------------------------------
(* client.py: ScrapeOptions *)

OptionFields ==
  {"method", "headers", "body", "tls_profile", "max_retries", "timeout",
   "use_antibot", "use_js_render", "use_residential", "use_mobile",
   "use_undetected", "js_wait_for", "js_scroll", "solve_captcha",
   "session_id", "session_ttl"}

OptionDefaults ==
  [method |-> "GET", headers |-> EmptyDict, body |-> None,
   tls_profile |-> "chrome124", max_retries |-> 5, timeout |-> 60,
   use_antibot |-> TRUE, use_js_render |-> FALSE, use_residential |-> FALSE,
   use_mobile |-> FALSE, use_undetected |-> FALSE,
   js_wait_for |-> "networkidle", js_scroll |-> FALSE,
   solve_captcha |-> FALSE, session_id |-> None, session_ttl |-> 1800]

(* the dataclass-generated __init__: an unknown keyword is a TypeError *)
ScrapeOptions(world, kwargs) ==
  IF \E k \in DOMAIN kwargs : k \notin OptionFields
    THEN Raised(world, "TypeError",
                <<"ScrapeOptions.__init__() got an unexpected keyword argument ",
                  CHOOSE k \in DOMAIN kwargs : k \notin OptionFields>>)
  ELSE Returned(world, Merge(OptionDefaults, kwargs))

(* a plausible slip: one field is left out of the dictionary *)
to_dict_without_session_ttl(options) ==
  [k \in OptionFields \ {"session_ttl"} |-> options[k]]

to_dict(options) == [k \in OptionFields |-> options[k]]

----------------------------------------------------------------------------
(* client.py: the httpx connection and the remote service *)

(* the process state threaded through every call:                          *)
(*   _config  config._config, the cached Config (Optional)                 *)
(*   _client  client._client, the global FineDataClient (Optional), whose  *)
(*            own field _client is the index in conns of its               *)
(*            httpx.AsyncClient, 0 for None                                *)
(*   conns    every httpx.AsyncClient created so far                       *)
(*   sent     the HTTP requests issued by the operation in progress        *)
(*   parsed   whether that operation decoded a response body               *)
(* (the environments of the model carry no base URL with a trailing "/",   *)
(* so that api_url.rstrip("/") leaves it as it is)                         *)
FineDataClient(world, e) ==
  Try(get_config(world, e), LAMBDA r :
    Returned(r.w, [api_url |-> r.value.api_url,
                   api_key |-> r.value.api_key,
                   timeout |-> r.value.timeout,
                   _client |-> 0]))

get_client(world, e) ==
  IF world._client = None
    THEN Try(FineDataClient(world, e), LAMBDA r :
           Returned([r.w EXCEPT !._client = Some(r.value)], r.value))
  ELSE Returned(world, world._client[1])

NeedsNewConn(world) ==
  \/ world._client = None
  \/ world._client[1]._client = 0
  \/ world.conns[world._client[1]._client].is_closed

_get_client(world) ==
  LET self == world._client[1]
  IN  IF self._client = 0 \/ world.conns[self._client].is_closed
        THEN LET conn == [is_closed |-> FALSE,
                          timeout |-> self.timeout + 30,
                          headers |-> [x_api_key |-> self.api_key]]
                 id   == Len(world.conns) + 1
             IN  Returned([world EXCEPT !.conns = Append(@, conn),
                                        !._client = Some([self EXCEPT !._client = id])],
                          id)
      ELSE Returned(world, self._client)

(* a plausible slip: the reference is kept after the connection is closed *)
close_keeps_reference(world) ==
  LET self == world._client[1]
  IN  IF self._client # 0 /\ ~world.conns[self._client].is_closed
        THEN Returned([world EXCEPT !.conns[self._client].is_closed = TRUE], None)
      ELSE Returned(world, None)

close(world) ==
  LET self == world._client[1]
  IN  IF self._client # 0 /\ ~world.conns[self._client].is_closed
        THEN Returned([world EXCEPT !.conns[self._client].is_closed = TRUE,
                                    !._client = Some([self EXCEPT !._client = 0])],
                      None)
      ELSE Returned(world, None)

(* a plausible slip: a request that timed out is sent a second time *)
request_retries_on_timeout(world, conn, method, url, json, resp) ==
  Let([world EXCEPT !.sent =
         IF resp.kind = "timeout"
           THEN @ \o << [method |-> method, url |-> url, json |-> json, conn |-> conn],
                        [method |-> method, url |-> url, json |-> json, conn |-> conn] >>
         ELSE Append(@, [method |-> method, url |-> url,
                         json |-> json, conn |-> conn])],
      LAMBDA w2 :
        CASE resp.kind = "timeout"   -> Raised(w2, "TimeoutException", resp.msg)
          [] resp.kind = "transport" -> Raised(w2, "ConnectError", resp.msg)
          [] OTHER -> Returned(w2, [status_code |-> resp.status, json |-> resp.json]))

(* client.post / client.get: the request goes out on connection conn and   *)
(* the remote outcome resp decides what the await produces                 *)
request(world, conn, method, url, json, resp) ==
  Let([world EXCEPT !.sent = Append(@, [method |-> method, url |-> url,
                                        json |-> json, conn |-> conn])],
      LAMBDA w2 :
        CASE resp.kind = "timeout"   -> Raised(w2, "TimeoutException", resp.msg)
          [] resp.kind = "transport" -> Raised(w2, "ConnectError", resp.msg)
          [] OTHER -> Returned(w2, [status_code |-> resp.status, json |-> resp.json]))

(* httpx.Response.raise_for_status: anything but 2xx raises *)
raise_for_status(world, response) ==
  IF response.status_code >= 200 /\ response.status_code <= 299
    THEN Returned(world, response)
  ELSE Raised(world, "HTTPStatusError",
              <<"Error response ", ToString(response.status_code)>>)

(* httpx.Response.json: a body that is not JSON raises *)
json(world, response) ==
  IF response.json.type = "invalid"
    THEN Raised(world, "JSONDecodeError", <<"Expecting value">>)
  ELSE Returned([world EXCEPT !.parsed = TRUE], response.json)

(* data.get(k, default) on a decoded payload: only a dict has .get *)
HasGet(data) == data.type = "dict"

(* data[k] on a decoded payload *)
Subscript(world, data, k) ==
  IF data.type # "dict"
    THEN Raised(world, "TypeError", <<"list indices must be integers or slices, not str">>)
  ELSE IF k \notin DOMAIN data.d
    THEN Raised(world, "KeyError", <<k>>)
  ELSE Returned(world, data.d[k])

NoGetError(world) ==
  Raised(world, "AttributeError", <<"'list' object has no attribute 'get'">>)

ScrapeResult(success, status_code, headers, body, meta, tokens_used, captcha_detected, captcha_type, captcha_solved, error) ==
  [success |-> success, status_code |-> status_code, headers |-> headers,
   body |-> body, meta |-> meta, tokens_used |-> tokens_used,
   captcha_detected |-> captcha_detected, captcha_type |-> captcha_type,
   captcha_solved |-> captcha_solved, error |-> error]

FailedResult(status_code, error) ==
  ScrapeResult(FALSE, status_code, EmptyDict, "", EmptyDict, 0,
               FALSE, None, FALSE, Some(error))

----------------------------------------------------------------------------
(* client.py: FineDataClient.scrape *)

IsTimeout(exc) == exc.type = "TimeoutException"

(* a plausible slip: the 402 test is lost and the body is decoded instead *)
ShortCutOnly401(response) ==
  IF response.status_code = 401
    THEN Some(FailedResult(401, <<"Invalid API key. Check your FINEDATA_API_KEY.">>))
  ELSE None

(* the two status codes answered without looking at the body *)
ShortCut(response) ==
  IF response.status_code = 401
    THEN Some(FailedResult(401, <<"Invalid API key. Check your FINEDATA_API_KEY.">>))
  ELSE IF response.status_code = 402
    THEN Some(FailedResult(402,
                <<"Payment required. Please add tokens or upgrade your plan.">>))
  ELSE None

(* the decoded payload as a ScrapeResult *)
ResultOf(data, response) ==
  ScrapeResult(Get(data, "success", FALSE),
               Get(data, "status_code", response.status_code),
               Get(data, "headers", EmptyDict),
               Get(data, "body", ""),
               Get(data, "meta", EmptyDict),
               Get(data, "tokens_used", 0),
               Get(data, "captcha_detected", FALSE),
               GetOpt(data, "captcha_type"),
               Get(data, "captcha_solved", FALSE),
               None)

(* the body of the try block: the POST, the 401/402 short cuts, the decode *)
scrape_try(world, url, options, resp) ==
  Try(request(world, world._client[1]._client, "POST",
              <<world._client[1].api_url, "/api/v1/scrape">>,
              Some(Merge([url |-> url], to_dict(options))), resp),
      LAMBDA r :
        IF ShortCut(r.value) # None THEN Returned(r.w, ShortCut(r.value)[1])
        ELSE Try(json(r.w, r.value), LAMBDA j :
               IF ~HasGet(j.value) THEN NoGetError(j.w)
               ELSE Returned(j.w, ResultOf(j.value.d, r.value))))

(* a plausible slip: the message quotes the per-request timeout option *)
TimeoutMessageFromOptions(self, options) ==
  <<"Request timed out after ", ToString(options.timeout), " seconds">>

(* the message of the timeout result *)
TimeoutMessage(self, options) ==
  <<"Request timed out after ", ToString(self.timeout), " seconds">>

(* a plausible slip: only the timeout is handled, the rest is re-raised as *)
(* the job, batch and usage operations do                                  *)
scrape_except_reraise(r, self, options) ==
  IF ~r.raised THEN r
  ELSE IF IsTimeout(r.exc)
    THEN Returned(r.w, FailedResult(504, TimeoutMessage(self, options)))
  ELSE r

(* the except clauses: a timeout becomes a 504 result, anything else a 500 *)
scrape_except(r, self, options) ==
  IF ~r.raised THEN r
  ELSE IF IsTimeout(r.exc)
    THEN Returned(r.w, FailedResult(504, TimeoutMessage(self, options)))
  ELSE Returned(r.w, FailedResult(500, r.exc.msg))

DefaultOptions(options) == IF options = None THEN OptionDefaults ELSE options[1]

scrape(world, url, options, resp) ==
  Let(_get_client(world), LAMBDA g :
    scrape_except(scrape_try(g.w, url, DefaultOptions(options), resp),
                  g.w._client[1], DefaultOptions(options)))

----------------------------------------------------------------------------
(* client.py: the job, batch and usage operations; each logs and re-raises *)

AsyncJob(job_id, status, url, created_at, estimated_completion, result, error) ==
  [job_id |-> job_id, status |-> status, url |-> url, created_at |-> created_at,
   estimated_completion |-> estimated_completion, result |-> result,
   error |-> error]

JobKeys == <<"job_id", "status", "url", "created_at">>

(* data["job_id"], data["status"], data["url"], data["created_at"] in the  *)
(* order the constructor call evaluates them: the first failure raises     *)
JobFields(world, data) ==
  IF \E i \in 1..Len(JobKeys) : Subscript(world, data, JobKeys[i]).raised
    THEN Subscript(world, data,
                   JobKeys[CHOOSE n \in 1..Len(JobKeys) :
                             /\ Subscript(world, data, JobKeys[n]).raised
                             /\ \A m \in 1..(n - 1) :
                                  ~Subscript(world, data, JobKeys[m]).raised])
  ELSE Returned(world, data.d)

(* a plausible slip: the status of the response is never looked at *)
checked_json_skips_status(r) ==
  Try(r, LAMBDA q : json(q.w, q.value))

(* response.raise_for_status(); data = response.json() *)
checked_json(r) ==
  Try(r, LAMBDA q :
    Try(raise_for_status(q.w, q.value), LAMBDA s : json(s.w, s.value)))

scrape_async(world, url, options, callback_url, callback_headers, resp) ==
  Let(_get_client(world), LAMBDA g :
    Try(checked_json(request(g.w, g.value, "POST",
                             <<g.w._client[1].api_url, "/api/v1/async/scrape">>,
                             Some(Merge(Merge([url |-> url],
                                              to_dict(DefaultOptions(options))),
                                        [callback_url |-> callback_url,
                                         callback_headers |-> callback_headers])),
                             resp)),
        LAMBDA j :
          Try(JobFields(j.w, j.value), LAMBDA f :
            Returned(f.w, AsyncJob(f.value.job_id, f.value.status,
                                   f.value.url, f.value.created_at,
                                   GetOpt(f.value, "estimated_completion"),
                                   None, None)))))

(* a plausible slip: the body is read from the job payload, as tokens_used *)
(* is, and not from the embedded result                                    *)
EmbeddedResultBodyFromJob(data) ==
  IF "result" \in DOMAIN data /\ data.result # EmptyDict
    THEN Some(ScrapeResult(Get(data.result, "success", FALSE),
                           Get(data.result, "status_code", 0),
                           Get(data.result, "headers", EmptyDict),
                           Get(data, "body", ""),
                           Get(data.result, "meta", EmptyDict),
                           Get(data, "tokens_used", 0),
                           FALSE, None, FALSE, None))
  ELSE None

(* the embedded result: built only when data.get("result") is truthy *)
EmbeddedResult(data) ==
  IF "result" \in DOMAIN data /\ data.result # EmptyDict
    THEN Some(ScrapeResult(Get(data.result, "success", FALSE),
                           Get(data.result, "status_code", 0),
                           Get(data.result, "headers", EmptyDict),
                           Get(data.result, "body", ""),
                           Get(data.result, "meta", EmptyDict),
                           Get(data, "tokens_used", 0),
                           FALSE, None, FALSE, None))
  ELSE None

get_job_status(world, job_id, resp) ==
  Let(_get_client(world), LAMBDA g :
    Try(checked_json(request(g.w, g.value, "GET",
                             <<g.w._client[1].api_url, "/api/v1/async/jobs/", job_id>>,
                             None, resp)),
        LAMBDA j :
          IF ~HasGet(j.value) THEN NoGetError(j.w)
          ELSE Try(JobFields(j.w, j.value), LAMBDA f :
                 Returned(f.w, AsyncJob(f.value.job_id, f.value.status,
                                        f.value.url, f.value.created_at,
                                        None, EmbeddedResult(f.value),
                                        GetOpt(f.value, "error"))))))

MaxBatchClient == 100

(* a plausible slip: the comparison is off by one *)
TooManyUrlsOffByOne(urls) == Len(urls) >= MaxBatchClient

TooManyUrls(urls) == Len(urls) > MaxBatchClient

batch_scrape(world, urls, options, callback_url, resp) ==
  IF TooManyUrls(urls)
    THEN Raised(world, "ValueError", <<"Maximum 100", " URLs per batch">>)
  ELSE Let(_get_client(world), LAMBDA g :
         checked_json(
           request(g.w, g.value, "POST",
                   <<g.w._client[1].api_url, "/api/v1/async/batch">>,
                   Some([requests |->
                           [i \in 1..Len(urls) |->
                              Merge([url |-> urls[i]],
                                    to_dict(DefaultOptions(options)))],
                         callback_url |-> callback_url]),
                   resp)))

get_usage(world, resp) ==
  Let(_get_client(world), LAMBDA g :
    checked_json(request(g.w, g.value, "GET",
                         <<g.w._client[1].api_url, "/api/v1/usage">>, None, resp)))

----------------------------------------------------------------------------
(* tools.py: the handlers *)

TextContent(lines) == [type |-> "text", text |-> lines]

ErrorText(msg) == <<TextContent(<< <<"Error: ">> \o msg >>)>>

(* truthiness of an Optional string and of an Optional number *)
TruthyStr(opt) == opt # None /\ opt[1] # ""

TruthyInt(opt) == opt # None /\ opt[1] # 0

BoolText(b) == IF b THEN "True" ELSE "False"

OptText(opt) == IF opt = None THEN "None" ELSE opt[1]

(* the keyword arguments handle_scrape_url passes to ScrapeOptions *)
ScrapeUrlKwargs(arguments) ==
  [use_js_render   |-> Get(arguments, "use_js_render", FALSE),
   use_residential |-> Get(arguments, "use_residential", FALSE),
   use_mobile      |-> Get(arguments, "use_mobile", FALSE),
   use_undetected  |-> Get(arguments, "use_undetected", FALSE),
   use_nodriver    |-> Get(arguments, "use_nodriver", FALSE),
   solve_captcha   |-> Get(arguments, "solve_captcha", FALSE),
   timeout         |-> Get(arguments, "timeout", 180),
   js_wait_for     |-> Get(arguments, "js_wait_for", "networkidle"),
   session_id      |-> GetOpt(arguments, "session_id"),
   tls_profile     |-> Get(arguments, "tls_profile", "chrome124")]

ScrapeErrorMessage(result) ==
  (IF result.error # None /\ result.error[1] # <<>>
     THEN result.error[1]
   ELSE <<"Request failed with status ", ToString(result.status_code)>>)
  \o (IF TruthyStr(GetOpt(result.meta, "block_reason"))
        THEN <<" (block_reason: ", result.meta.block_reason, ")">>
      ELSE <<>>)

ScrapeSuccessText(url, result) ==
  << <<"Successfully scraped ", url>>,
     <<"Status: ", ToString(result.status_code)>>,
     <<"Tokens used: ", ToString(result.tokens_used)>> >>
  \o (IF result.captcha_detected
        THEN << <<"Captcha detected: ", OptText(result.captcha_type)>> >>
             \o (IF result.captcha_solved THEN << <<"Captcha solved: Yes">> >>
                 ELSE <<>>)
      ELSE <<>>)
  \o (IF TruthyInt(GetOpt(result.meta, "response_time_ms"))
        THEN << <<"Response time: ", ToString(result.meta.response_time_ms), "ms">> >>
      ELSE <<>>)
  \o << <<"">>, <<"--- Content ---">>, <<result.body>> >>

handle_scrape_url(world, e, arguments, resp) ==
  IF ~TruthyStr(GetOpt(arguments, "url"))
    THEN Returned(world, ErrorText(<<"url is required">>))
  ELSE Try(ScrapeOptions(world, ScrapeUrlKwargs(arguments)), LAMBDA o :
       Try(get_client(o.w, e), LAMBDA c :
       Try(scrape(c.w, arguments.url, Some(o.value), resp), LAMBDA r :
         IF ~r.value.success
           THEN Returned(r.w, ErrorText(ScrapeErrorMessage(r.value)))
         ELSE Returned(r.w,
                <<TextContent(ScrapeSuccessText(arguments.url, r.value))>>))))

(* the keyword arguments handle_scrape_async passes to ScrapeOptions *)
ScrapeAsyncKwargs(arguments) ==
  [use_js_render   |-> Get(arguments, "use_js_render", FALSE),
   use_residential |-> Get(arguments, "use_residential", FALSE),
   use_mobile      |-> Get(arguments, "use_mobile", FALSE),
   use_undetected  |-> Get(arguments, "use_undetected", FALSE),
   use_nodriver    |-> Get(arguments, "use_nodriver", FALSE),
   solve_captcha   |-> Get(arguments, "solve_captcha", FALSE),
   timeout         |-> Get(arguments, "timeout", 180)]

AsyncJobText(job) ==
  << <<"Async job submitted successfully.">>,
     <<"">>,
     <<"Job ID: ", job.job_id>>,
     <<"Status: ", job.status>>,
     <<"URL: ", job.url>>,
     <<"Created: ", job.created_at>>,
     <<"">>,
     <<"Use get_job_status with job_id=\"", job.job_id, "\" to check progress.">> >>

handle_scrape_async(world, e, arguments, resp) ==
  IF ~TruthyStr(GetOpt(arguments, "url"))
    THEN Returned(world, ErrorText(<<"url is required">>))
  ELSE Try(ScrapeOptions(world, ScrapeAsyncKwargs(arguments)), LAMBDA o :
       Try(get_client(o.w, e), LAMBDA c :
       Try(scrape_async(c.w, arguments.url, Some(o.value),
                        GetOpt(arguments, "callback_url"), None, resp),
           LAMBDA r : Returned(r.w, <<TextContent(AsyncJobText(r.value))>>))))

JobStatusText(job) ==
  << <<"Job ID: ", job.job_id>>,
     <<"Status: ", job.status>>,
     <<"URL: ", job.url>>,
     <<"Created: ", job.created_at>> >>
  \o (IF TruthyStr(job.error) THEN << <<"Error: ", job.error[1]>> >> ELSE <<>>)
  \o (IF job.result # None
        THEN << <<"">>,
                <<"--- Result ---">>,
                <<"Success: ", BoolText(job.result[1].success)>>,
                <<"Status code: ", ToString(job.result[1].status_code)>>,
                <<"Tokens used: ", ToString(job.result[1].tokens_used)>>,
                <<"">>,
                <<"--- Content ---">>,
                <<job.result[1].body>> >>
      ELSE <<>>)

(* a plausible slip: the job is fetched before job_id is validated *)
handle_get_job_status_validates_late(world, e, arguments, resp) ==
  Try(get_client(world, e), LAMBDA c :
  Try(get_job_status(c.w, Get(arguments, "job_id", ""), resp), LAMBDA r :
    IF ~TruthyStr(GetOpt(arguments, "job_id"))
      THEN Returned(r.w, ErrorText(<<"job_id is required">>))
    ELSE Returned(r.w, <<TextContent(JobStatusText(r.value))>>)))

handle_get_job_status(world, e, arguments, resp) ==
  IF ~TruthyStr(GetOpt(arguments, "job_id"))
    THEN Returned(world, ErrorText(<<"job_id is required">>))
  ELSE Try(get_client(world, e), LAMBDA c :
       Try(get_job_status(c.w, arguments.job_id, resp), LAMBDA r :
         Returned(r.w, <<TextContent(JobStatusText(r.value))>>)))

MaxBatchHandler == 100

BatchKwargs(arguments) ==
  [use_js_render   |-> Get(arguments, "use_js_render", FALSE),
   use_residential |-> Get(arguments, "use_residential", FALSE),
   use_mobile      |-> Get(arguments, "use_mobile", FALSE)]

BatchText(result) ==
  << <<"Batch submitted successfully.">>,
     <<"">>,
     <<"Batch ID: ", OptText(GetOpt(result, "batch_id"))>>,
     <<"Total jobs: ", IF "total_jobs" \in DOMAIN result
                         THEN ToString(result.total_jobs) ELSE "None">>,
     <<"Status: ", OptText(GetOpt(result, "status"))>>,
     <<"">>,
     <<"Job IDs:">> >>
  \o [i \in 1..Len(Get(result, "job_ids", <<>>)) |-> <<"  - ", result.job_ids[i]>>]
  \o << <<"">>,
        <<"Use get_job_status to check individual job progress.">> >>

handle_batch_scrape(world, e, arguments, resp) ==
  IF Get(arguments, "urls", <<>>) = <<>>
    THEN Returned(world, ErrorText(<<"urls array is required">>))
  ELSE IF Len(arguments.urls) > MaxBatchHandler
    THEN Returned(world, ErrorText(<<"Maximum 100", " URLs per batch">>))
  ELSE Try(ScrapeOptions(world, BatchKwargs(arguments)), LAMBDA o :
       Try(get_client(o.w, e), LAMBDA c :
       Try(batch_scrape(c.w, arguments.urls, Some(o.value),
                        GetOpt(arguments, "callback_url"), resp),
           LAMBDA r :
             IF ~HasGet(r.value) THEN NoGetError(r.w)
             ELSE Returned(r.w, <<TextContent(BatchText(r.value.d))>>))))

UsageText(usage) ==
  LET customer_usage == Get(usage, "customer_usage", EmptyDict)
      charges        == Get(customer_usage, "charges_usage", <<EmptyDict>>)
      tokens_used    == IF Len(charges) > 0 THEN Get(charges[1], "units", "0")
                        ELSE "0"
  IN  << <<"Current Usage">>,
         <<"">>,
         <<"Period: ", Get(customer_usage, "from_datetime", "N/A"), " to ",
           Get(customer_usage, "to_datetime", "N/A")>>,
         <<"Tokens used: ", tokens_used>>,
         <<"">>,
         <<"For detailed billing, visit https://finedata.ai/billing">> >>

handle_get_usage(world, e, arguments, resp) ==
  Try(get_client(world, e), LAMBDA c :
  Try(get_usage(c.w, resp), LAMBDA r :
    IF ~HasGet(r.value) THEN NoGetError(r.w)
    ELSE Returned(r.w, <<TextContent(UsageText(r.value.d))>>)))

----------------------------------------------------------------------------
(* tools.py: the dispatch *)

TOOL_HANDLERS ==
  {"scrape_url", "scrape_async", "get_job_status", "batch_scrape", "get_usage"}

Dispatch(world, e, name, arguments, resp) ==
  CASE name = "scrape_url"     -> handle_scrape_url(world, e, arguments, resp)
    [] name = "scrape_async"   -> handle_scrape_async(world, e, arguments, resp)
    [] name = "get_job_status" -> handle_get_job_status(world, e, arguments, resp)
    [] name = "batch_scrape"   -> handle_batch_scrape(world, e, arguments, resp)
    [] name = "get_usage"      -> handle_get_usage(world, e, arguments, resp)

(* the classes that derive from Exception, which "except Exception" catches *)
ExceptionTypes ==
  {"ValueError", "TypeError", "KeyError", "AttributeError", "JSONDecodeError",
   "HTTPStatusError", "TimeoutException", "ConnectError"}

(* a plausible slip: the handler boundary catches ValueError only *)
CatchesValueError(exc) == exc.type = "ValueError"

Catches(exc) == exc.type \in ExceptionTypes

(* the except clause of call_tool *)
call_tool_except(r) ==
  IF r.raised /\ Catches(r.exc) THEN Returned(r.w, ErrorText(r.exc.msg)) ELSE r

call_tool(world, e, name, arguments, resp) ==
  IF name \notin TOOL_HANDLERS
    THEN Returned(world, ErrorText(<<"Unknown tool '", name, "'">>))
  ELSE call_tool_except(Dispatch(world, e, name, arguments, resp))

----------------------------------------------------------------------------
(* The inputs: environments, argument maps, remote outcomes *)

ExampleUrl == "https://example.com"

Environments ==
  { EmptyDict,
    [FINEDATA_API_KEY |-> ""],
    [FINEDATA_API_KEY |-> "fd_key_1234"],
    [FINEDATA_API_KEY |-> "key", FINEDATA_TIMEOUT |-> <<"4", "5">>,
     FINEDATA_API_URL |-> "https://staging.finedata.test"],
    [FINEDATA_API_KEY |-> "fd_key_1234", FINEDATA_TIMEOUT |-> <<"1", "m">>] }

Invocations ==
  { <<"scrape_url", EmptyDict>>,
    <<"scrape_url", [url |-> ExampleUrl]>>,
    <<"scrape_url", [url |-> ExampleUrl, use_js_render |-> TRUE, timeout |-> 30,
                     session_id |-> "s1"]>>,
    <<"scrape_async", [url |-> ""]>>,
    <<"scrape_async", [url |-> ExampleUrl]>>,
    <<"scrape_async", [url |-> ExampleUrl, use_mobile |-> TRUE,
                       callback_url |-> "https://cb.test/hook"]>>,
    <<"get_job_status", EmptyDict>>,
    <<"get_job_status", [job_id |-> "job-1"]>>,
    <<"batch_scrape", [urls |-> <<>>]>>,
    <<"batch_scrape", [urls |-> <<ExampleUrl, "https://b.test">>,
                       use_mobile |-> TRUE]>>,
    <<"batch_scrape", [urls |-> Repeat(ExampleUrl, MaxBatchHandler)]>>,
    <<"batch_scrape", [urls |-> Repeat(ExampleUrl, LongBatch)]>>,
    <<"get_usage", EmptyDict>>,
    <<"no_such_tool", [url |-> ExampleUrl]>> }

JobPending ==
  [job_id |-> "job-1", status |-> "pending", url |-> ExampleUrl,
   created_at |-> "2024-01-01T00:00:00Z"]

Payloads ==
  { [type |-> "invalid", d |-> EmptyDict],
    [type |-> "list", d |-> EmptyDict],
    [type |-> "dict", d |-> EmptyDict],
    [type |-> "dict",
     d |-> [success |-> TRUE, status_code |-> 200, body |-> "<html>...</html>",
            tokens_used |-> 3, headers |-> [content_type |-> "text/html"],
            meta |-> [response_time_ms |-> 120], captcha_detected |-> TRUE,
            captcha_type |-> "recaptcha", captcha_solved |-> TRUE]],
    [type |-> "dict",
     d |-> [success |-> FALSE, status_code |-> 403,
            meta |-> [block_reason |-> "cloudflare"]]],
    [type |-> "dict", d |-> JobPending],
    [type |-> "dict",
     d |-> Merge(JobPending,
                 [status |-> "completed", tokens_used |-> 7,
                  result |-> [success |-> TRUE, status_code |-> 200,
                              body |-> "<html>job</html>"]])],
    [type |-> "dict",
     d |-> [batch_id |-> "batch-1", job_ids |-> <<"job-1", "job-2">>,
            total_jobs |-> 2, status |-> "queued"]],
    [type |-> "dict",
     d |-> [customer_usage |->
              [from_datetime |-> "2024-01-01", to_datetime |-> "2024-02-01",
               charges_usage |-> << [units |-> "42"] >>]]],
    [type |-> "dict", d |-> [customer_usage |-> [charges_usage |-> <<>>]]] }

NoPayload == [type |-> "invalid", d |-> EmptyDict]

ScrapeOk == CHOOSE p \in Payloads : "captcha_type" \in DOMAIN p.d

Blocked == CHOOSE p \in Payloads : "meta" \in DOMAIN p.d /\ "block_reason" \in DOMAIN p.d.meta

Response(s, p) == [kind |-> "response", status |-> s, json |-> p, msg |-> <<>>]

Outcomes ==
  { Response(200, p) : p \in Payloads }
  \cup { Response(401, NoPayload), Response(401, ScrapeOk),
         Response(402, NoPayload), Response(402, ScrapeOk),
         Response(503, Blocked) }
  \cup { [kind |-> "timeout", status |-> 0, json |-> NoPayload, msg |-> <<>>],
         [kind |-> "transport", status |-> 0, json |-> NoPayload,
          msg |-> <<"All connection attempts failed">>],
         [kind |-> "transport", status |-> 0, json |-> NoPayload, msg |-> <<>>] }

NoOutcome == [kind |-> "none", status |-> 0, json |-> NoPayload, msg |-> <<>>]

OptionRecords ==
  { None,
    Some([OptionDefaults EXCEPT !.timeout = 5, !.max_retries = 2,
                                !.use_js_render = TRUE]) }

UrlLists ==
  { <<ExampleUrl>>, Repeat(ExampleUrl, MaxBatchClient), Repeat(ExampleUrl, LongBatch) }

(* the batches a direct caller submits: every list without options, and   *)
(* the one-URL list with each options record                               *)
BatchInputs ==
  (UrlLists \X {None}) \cup ({<<ExampleUrl>>} \X OptionRecords)

----------------------------------------------------------------------------
(* The process *)

World0 ==
  [_config |-> None, _client |-> None, conns |-> <<>>, sent |-> <<>>,
   parsed |-> FALSE]

(* a new operation starts with nothing sent and nothing decoded *)
Begin(world) == [world EXCEPT !.sent = <<>>, !.parsed = FALSE]

Ref(world) == IF world._client = None THEN 0 ELSE world._client[1]._client

Record(op, name, arguments, resp, r, world) ==
  [op |-> op, name |-> name, arguments |-> arguments, resp |-> resp,
   raised |-> r.raised, exc |-> r.exc, value |-> r.value,
   pre |-> [nconns |-> Len(world.conns), ref |-> Ref(world)]]

NoReturn == [raised |-> FALSE, exc |-> NoExc, value |-> None]

(* the coroutines on the event loop: each is idle or suspended at an await *)
(* of a client method, on the connection conn                              *)
Tasks == 1..NumTasks

Idle == [at |-> "idle", conn |-> 0]

Init ==
  /\ env \in Environments
  /\ pc = "boot"
  /\ exit_code = -1
  /\ w = World0
  /\ last = Record("none", "", EmptyDict, NoOutcome, NoReturn, World0)
  /\ log = <<>>
  /\ served = FALSE
  /\ tasks = [t \in Tasks |-> Idle]

(* an operation may need a fresh connection; the model stops creating them *)
(* at MaxConns                                                             *)
CanConnect == ~NeedsNewConn(w) \/ Len(w.conns) < MaxConns

(* server.py run_server, up to the transport starting: configuration is    *)
(* validated first; a ValueError is logged and the process exits with 1    *)
Startup ==
  /\ pc = "boot"
  /\ \E r \in {get_config(w, env)} :
         IF r.raised /\ r.exc.type = "ValueError"
           THEN /\ log' = Append(log, <<"ERROR", "Configuration error: ">> \o r.exc.msg)
                /\ pc' = "exited"
                /\ exit_code' = 1
                /\ w' = r.w
         ELSE /\ log' = Append(log, <<"INFO", "API URL: ", r.value.api_url>>)
              /\ pc' = "serving"
              /\ exit_code' = exit_code
              /\ w' = r.w
  /\ UNCHANGED <<env, last, served, tasks>>

(* server.py handle_call_tool: the transport invokes a tool *)
HandleCallTool ==
  /\ pc = "serving"
  /\ CanConnect
  /\ \E inv \in Invocations, resp \in Outcomes :
       \E r \in {call_tool(Begin(w), env, inv[1], inv[2], resp)} :
         /\ w' = r.w
         /\ last' = Record("call_tool", inv[1], inv[2], resp, r, w)
  /\ served' = TRUE
  /\ UNCHANGED <<env, pc, exit_code, log, tasks>>

(* direct uses of the client API: get_client() and then one method *)
ClientScrape ==
  /\ pc = "serving"
  /\ CanConnect
  /\ \E options \in OptionRecords, resp \in Outcomes :
       \E r \in {scrape(get_client(Begin(w), env).w, ExampleUrl, options, resp)} :
         /\ w' = r.w
         /\ last' = Record("scrape", "", [url |-> ExampleUrl, options |-> options],
                           resp, r, w)
  /\ UNCHANGED <<env, pc, exit_code, log, served, tasks>>

ClientScrapeAsync ==
  /\ pc = "serving"
  /\ CanConnect
  /\ \E options \in OptionRecords, resp \in Outcomes :
       \E r \in {scrape_async(get_client(Begin(w), env).w, ExampleUrl, options,
                              None, None, resp)} :
         /\ w' = r.w
         /\ last' = Record("scrape_async", "",
                           [url |-> ExampleUrl, options |-> options], resp, r, w)
  /\ UNCHANGED <<env, pc, exit_code, log, served, tasks>>

ClientGetJobStatus ==
  /\ pc = "serving"
  /\ CanConnect
  /\ \E job_id \in {"job-1"}, resp \in Outcomes :
       \E r \in {get_job_status(get_client(Begin(w), env).w, job_id, resp)} :
         /\ w' = r.w
         /\ last' = Record("get_job_status", "", [job_id |-> job_id], resp, r, w)
  /\ UNCHANGED <<env, pc, exit_code, log, served, tasks>>

ClientBatchScrape ==
  /\ pc = "serving"
  /\ CanConnect
  /\ \E b \in BatchInputs, resp \in Outcomes :
       \E r \in {batch_scrape(get_client(Begin(w), env).w, b[1], b[2], None, resp)} :
         /\ w' = r.w
         /\ last' = Record("batch_scrape", "", [urls |-> b[1], options |-> b[2]],
                           resp, r, w)
  /\ UNCHANGED <<env, pc, exit_code, log, served, tasks>>

ClientGetUsage ==
  /\ pc = "serving"
  /\ CanConnect
  /\ \E resp \in Outcomes :
       \E r \in {get_usage(get_client(Begin(w), env).w, resp)} :
         /\ w' = r.w
         /\ last' = Record("get_usage", "", EmptyDict, resp, r, w)
  /\ UNCHANGED <<env, pc, exit_code, log, served, tasks>>

ClientClose ==
  /\ pc = "serving"
  /\ \E r \in {close(get_client(Begin(w), env).w)} :
       /\ w' = r.w
       /\ last' = Record("close", "", EmptyDict, NoOutcome, r, w)
  /\ UNCHANGED <<env, pc, exit_code, log, served, tasks>>

(* server.py run_server after the transport's run loop returns: the        *)
(* cleanup closes the global client                                        *)
RunLoopReturns ==
  /\ pc = "serving"
  /\ \E r \in {close(get_client(Begin(w), env).w)} :
         /\ w' = r.w
         /\ last' = Record("shutdown", "", EmptyDict, NoOutcome, r, w)
  /\ log' = Append(log, <<"INFO", "FineData MCP Server stopped">>)
  /\ pc' = "exited"
  /\ exit_code' = 0
  /\ UNCHANGED <<env, served, tasks>>

(* the run loop raises: the exception leaves run_server before the cleanup *)
(* and main logs it and exits with 1                                       *)
RunLoopRaises ==
  /\ pc = "serving"
  /\ log' = Append(log, <<"ERROR", "Server error: ">>)
  /\ pc' = "exited"
  /\ exit_code' = 1
  /\ last' = Record("server_error", "", EmptyDict, NoOutcome, NoReturn, w)
  /\ UNCHANGED <<env, w, served, tasks>>

(* KeyboardInterrupt: asyncio.run unwinds run_server, main logs and returns *)
Interrupt ==
  /\ pc \in {"boot", "serving"}
  /\ log' = Append(log, <<"INFO", "Server interrupted by user">>)
  /\ pc' = "exited"
  /\ exit_code' = 0
  /\ last' = Record("interrupt", "", EmptyDict, NoOutcome, NoReturn, w)
  /\ UNCHANGED <<env, w, served, tasks>>

(* Concurrent use of the shared client.  A coroutine runs without          *)
(* interruption up to its next await; _get_client has no await, so a       *)
(* request method runs from get_client() to the await of client.get in one *)
(* step, and resumes when the response arrives.                            *)

(* "if self._client and not self._client.is_closed" in close *)
HasOpenConn(world) ==
  /\ Ref(world) # 0
  /\ ~world.conns[Ref(world)].is_closed

(* httpx.AsyncClient.aclose marks the connection closed and then awaits    *)
(* the shutdown of its transport                                           *)
aclose(world, id) == [world EXCEPT !.conns[id].is_closed = TRUE]

(* get_usage up to "await client.get(...)": the request is on the wire *)
GetUsageSends ==
  /\ pc = "serving"
  /\ CanConnect
  /\ \E t \in Tasks :
       /\ tasks[t].at = "idle"
       /\ \E g \in {_get_client(get_client(Begin(w), env).w)} :
            /\ w' = request(g.w, g.value, "GET",
                            <<g.w._client[1].api_url, "/api/v1/usage">>,
                            None, NoOutcome).w
            /\ tasks' = [tasks EXCEPT ![t] = [at |-> "get_usage", conn |-> g.value]]
       /\ last' = Record("get_usage_sent", "", EmptyDict, NoOutcome, NoReturn, w)
  /\ UNCHANGED <<env, pc, exit_code, log, served>>

(* get_usage from the await on: the outcome arrives (a transport failure   *)
(* if the connection was closed meanwhile) and the method returns or       *)
(* raises                                                                  *)
GetUsageReturns ==
  /\ pc = "serving"
  /\ \E t \in Tasks, resp \in Outcomes :
       /\ tasks[t].at = "get_usage"
       /\ w.conns[tasks[t].conn].is_closed => resp.kind = "transport"
       /\ \E r \in {checked_json(request(Begin(w), tasks[t].conn, "GET",
                                         <<w._client[1].api_url, "/api/v1/usage">>,
                                         None, resp))} :
            /\ w' = r.w
            /\ last' = Record("get_usage", "", EmptyDict, resp, r, w)
       /\ tasks' = [tasks EXCEPT ![t] = Idle]
  /\ UNCHANGED <<env, pc, exit_code, log, served>>

(* close up to "await self._client.aclose()"; with no open connection      *)
(* close returns at once                                                   *)
CloseAwaitsAclose ==
  /\ pc = "serving"
  /\ \E t \in Tasks :
       /\ tasks[t].at = "idle"
       /\ \E c \in {get_client(w, env).w} :
            IF HasOpenConn(c)
              THEN /\ w' = aclose(c, Ref(c))
                   /\ tasks' = [tasks EXCEPT ![t] = [at |-> "close", conn |-> Ref(c)]]
                   /\ last' = Record("close_awaits", "", EmptyDict, NoOutcome,
                                     NoReturn, w)
            ELSE /\ w' = close(c).w
                 /\ tasks' = tasks
                 /\ last' = Record("close", "", EmptyDict, NoOutcome, close(c), w)
  /\ UNCHANGED <<env, pc, exit_code, log, served>>

(* close from the await on: "self._client = None" *)
CloseClearsReference ==
  /\ pc = "serving"
  /\ \E t \in Tasks :
       /\ tasks[t].at = "close"
       /\ w' = [w EXCEPT !._client = Some([w._client[1] EXCEPT !._client = 0])]
       /\ tasks' = [tasks EXCEPT ![t] = Idle]
       /\ last' = Record("close", "", EmptyDict, NoOutcome, NoReturn, w)
  /\ UNCHANGED <<env, pc, exit_code, log, served>>

(* the server process *)
Next ==
  \/ Startup
  \/ HandleCallTool
  \/ RunLoopReturns
  \/ RunLoopRaises
  \/ Interrupt

Spec == Init /\ [][Next]_vars

(* a program that uses the client API directly *)
ClientNext ==
  \/ Startup
  \/ ClientScrape
  \/ ClientScrapeAsync
  \/ ClientGetJobStatus
  \/ ClientBatchScrape
  \/ ClientGetUsage
  \/ ClientClose

ClientSpec == Init /\ [][ClientNext]_vars

(* a program that submits batches, through the tool and directly *)
BatchNext ==
  \/ Startup
  \/ HandleCallTool
  \/ ClientBatchScrape

BatchSpec == Init /\ [][BatchNext]_vars

(* coroutines sharing the client: requests and close() interleave at      *)
(* their awaits                                                            *)
ConcNext ==
  \/ Startup
  \/ GetUsageSends
  \/ GetUsageReturns
  \/ CloseAwaitsAclose
  \/ CloseClearsReference

ConcSpec == Init /\ [][ConcNext]_vars

----------------------------------------------------------------------------
(* Properties *)

Contains(text, line) == \E i \in 1..Len(text) : text[i] = line

HasPiece(line, piece) == \E i \in 1..Len(line) : line[i] = piece

(* the text of the single block a tool invocation returned *)
TextOf(value) == value[1].text

IsErrorReply(value) == Len(TextOf(value)) = 1 /\ TextOf(value)[1][1] = "Error: "

ToolCalled(name) == last.op = "call_tool" /\ last.name = name

AnsweredSuccess(resp) ==
  /\ resp.kind = "response"
  /\ resp.status = 200
  /\ resp.json.type = "dict"
  /\ Get(resp.json.d, "success", FALSE)

(* C1: scrape_url with a non-empty url and a remote answer with            *)
(* success=true returns a text with "Successfully scraped <url>",          *)
(* "Tokens used: <tokens_used>" and the body, and not an "Error: ..." text *)
C1_ScrapeUrlFormatsSuccess ==
  ( /\ ToolCalled("scrape_url")
    /\ TruthyStr(GetOpt(last.arguments, "url"))
    /\ AnsweredSuccess(last.resp) )
  => /\ ~last.raised
     /\ ~IsErrorReply(last.value)
     /\ Contains(TextOf(last.value), <<"Successfully scraped ", last.arguments.url>>)
     /\ Contains(TextOf(last.value),
                 <<"Tokens used: ", ToString(Get(last.resp.json.d, "tokens_used", 0))>>)
     /\ Contains(TextOf(last.value), <<Get(last.resp.json.d, "body", "")>>)

JobAccepted(resp) ==
  /\ resp.kind = "response"
  /\ resp.status = 200
  /\ resp.json.type = "dict"
  /\ \A i \in 1..Len(JobKeys) : JobKeys[i] \in DOMAIN resp.json.d

(* C2: scrape_async with a non-empty url issues exactly one POST to        *)
(* /api/v1/async/scrape and, when the job is accepted, returns a text with *)
(* the job identifier, its status and the instruction to poll              *)
(* get_job_status for that identifier                                      *)
C2_ScrapeAsyncSubmits ==
  ( /\ ToolCalled("scrape_async")
    /\ TruthyStr(GetOpt(last.arguments, "url")) )
  => /\ Len(w.sent) = 1
     /\ w.sent[1].method = "POST"
     /\ w.sent[1].url[2] = "/api/v1/async/scrape"
     /\ JobAccepted(last.resp)
        => /\ ~last.raised
           /\ Contains(TextOf(last.value), <<"Job ID: ", last.resp.json.d.job_id>>)
           /\ Contains(TextOf(last.value), <<"Status: ", last.resp.json.d.status>>)
           /\ Contains(TextOf(last.value),
                       <<"Use get_job_status with job_id=\"",
                         last.resp.json.d.job_id, "\" to check progress.">>)

(* C3: whatever the tool name, the arguments and the remote outcome,       *)
(* call_tool returns a non-empty list of text blocks; no exception escapes *)
C3_NoExceptionEscapes ==
  last.op = "call_tool"
  => /\ ~last.raised
     /\ Len(last.value) >= 1
     /\ \A i \in 1..Len(last.value) : last.value[i].type = "text"

(* a transport failure under get_usage was raised by the client and turned *)
(* into an error text                                                      *)
C3_Witness ==
  /\ ToolCalled("get_usage")
  /\ last.resp.kind = "transport"
  /\ last.resp.msg # <<>>
  /\ last.value = ErrorText(last.resp.msg)

ResultFields ==
  {"success", "status_code", "headers", "body", "meta", "tokens_used",
   "captcha_detected", "captcha_type", "captcha_solved", "error"}

(* the message of the exception the try block of scrape ends with, when    *)
(* the outcome is a failure other than a timeout: a transport error, a     *)
(* body that is not JSON, a JSON body that is not an object                *)
OtherFailure(resp) ==
  \/ resp.kind = "transport"
  \/ /\ resp.kind = "response"
     /\ resp.status \notin {401, 402}
     /\ resp.json.type # "dict"

FailureMessage(resp) ==
  IF resp.kind = "transport" THEN resp.msg
  ELSE IF resp.json.type = "invalid" THEN <<"Expecting value">>
  ELSE <<"'list' object has no attribute 'get'">>

(* C4: scrape never raises; it returns a ScrapeResult with every field,    *)
(* and for an exception other than a timeout the result has success=false, *)
(* status_code=500 and the exception's message as error                    *)
C4_ScrapeNeverRaises ==
  last.op = "scrape"
  => /\ ~last.raised
     /\ DOMAIN last.value = ResultFields
     /\ OtherFailure(last.resp)
        => /\ ~last.value.success
           /\ last.value.status_code = 500
           /\ last.value.error = Some(FailureMessage(last.resp))

C4_Witness ==
  /\ last.op = "scrape"
  /\ last.resp.kind = "response"
  /\ last.resp.status = 200
  /\ last.resp.json.type = "invalid"
  /\ last.value.status_code = 500
  /\ last.value.error = Some(<<"Expecting value">>)

(* C5: a scrape answered with 401 or 402 returns success=false, that       *)
(* status code, no tokens, empty body, headers and meta and a fixed error  *)
(* string, whatever the response body, which is not decoded                *)
C5_AuthAndPaymentResults ==
  ( /\ last.op = "scrape"
    /\ last.resp.kind = "response"
    /\ last.resp.status \in {401, 402} )
  => /\ ~last.raised
     /\ ~last.value.success
     /\ last.value.status_code = last.resp.status
     /\ last.value.tokens_used = 0
     /\ last.value.body = ""
     /\ last.value.headers = EmptyDict
     /\ last.value.meta = EmptyDict
     /\ last.value.error =
          Some(IF last.resp.status = 401
                 THEN <<"Invalid API key. Check your FINEDATA_API_KEY.">>
               ELSE <<"Payment required. Please add tokens or upgrade your plan.">>)
     /\ ~w.parsed

(* a 402 whose body is a well-formed success payload *)
C5_Witness ==
  /\ last.op = "scrape"
  /\ last.resp.kind = "response"
  /\ last.resp.status = 402
  /\ AnsweredSuccess([last.resp EXCEPT !.status = 200])
  /\ ~last.value.success
  /\ last.value.status_code = 402

(* the timeout of the process configuration, read from the environment *)
ConfiguredTimeout ==
  IF "FINEDATA_TIMEOUT" \in DOMAIN env THEN ParseInt(env.FINEDATA_TIMEOUT) ELSE 180

(* C6: a scrape that times out returns success=false, status_code=504 and  *)
(* an error string with the configured timeout, not the per-request one    *)
C6_TimeoutResult ==
  ( /\ last.op = "scrape"
    /\ last.resp.kind = "timeout" )
  => /\ ~last.raised
     /\ ~last.value.success
     /\ last.value.status_code = 504
     /\ last.value.error =
          Some(<<"Request timed out after ", ToString(ConfiguredTimeout), " seconds">>)

(* a timeout of a request whose options carry another timeout than the    *)
(* configuration                                                           *)
C6_Witness ==
  /\ last.op = "scrape"
  /\ last.resp.kind = "timeout"
  /\ last.arguments.options # None
  /\ last.arguments.options[1].timeout # ConfiguredTimeout
  /\ last.value.status_code = 504
  /\ HasPiece(last.value.error[1], "45")

NoRequestNoConnection ==
  /\ w.sent = <<>>
  /\ Len(w.conns) = last.pre.nconns

(* C7: a batch of more than 100 URLs fails locally with a "Maximum 100"    *)
(* message, no request issued and no connection created, at the handler    *)
(* and at the client; 1 to 100 URLs pass this check and are submitted      *)
C7_BatchLimit ==
  /\ ( ToolCalled("batch_scrape") /\ "urls" \in DOMAIN last.arguments )
     => /\ Len(last.arguments.urls) > 100
           => /\ IsErrorReply(last.value)
              /\ HasPiece(TextOf(last.value)[1], "Maximum 100")
              /\ NoRequestNoConnection
        /\ Len(last.arguments.urls) \in 1..100
           => /\ Len(w.sent) = 1
              /\ Len(w.sent[1].json[1].requests) = Len(last.arguments.urls)
  /\ last.op = "batch_scrape"
     => /\ Len(last.arguments.urls) > 100
           => /\ last.raised
              /\ last.exc.type = "ValueError"
              /\ HasPiece(last.exc.msg, "Maximum 100")
              /\ NoRequestNoConnection
        /\ Len(last.arguments.urls) \in 1..100
           => /\ Len(w.sent) = 1
              /\ Len(w.sent[1].json[1].requests) = Len(last.arguments.urls)

(* the client, called directly with 101 URLs, has refused them *)
C7_Witness ==
  /\ last.op = "batch_scrape"
  /\ Len(last.arguments.urls) = LongBatch
  /\ last.raised
  /\ w.sent = <<>>

CredentialMissing == Get(env, "FINEDATA_API_KEY", "") = ""

LoggedConfigurationError ==
  \E i \in 1..Len(log) : log[i][1] = "ERROR" /\ log[i][2] = "Configuration error: "

(* C8: the configuration is validated before any invocation is accepted:   *)
(* with the credential absent or empty the process never serves a tool     *)
(* invocation, and once startup has run it has logged a configuration      *)
(* error and exited with a non-zero status                                 *)
C8_StartupValidates ==
  /\ served => w._config # None
  /\ CredentialMissing
     => /\ ~served
        /\ pc # "serving"
        /\ (pc = "exited" /\ last.op # "interrupt")
           => /\ exit_code = 1
              /\ LoggedConfigurationError

C8_Witness ==
  /\ CredentialMissing
  /\ "FINEDATA_API_KEY" \in DOMAIN env
  /\ pc = "exited"
  /\ exit_code = 1
  /\ LoggedConfigurationError

AllConnectionsClosed == \A i \in 1..Len(w.conns) : w.conns[i].is_closed

(* C9: on every path by which the server stops after having started (run   *)
(* loop returning, run loop raising, interrupt), every connection the      *)
(* client opened is closed before the process ends                         *)
C9_ShutdownReleasesConnection ==
  (pc = "exited" /\ w._config # None) => AllConnectionsClosed

(* C10: close() does nothing when there is no connection; closes an open   *)
(* connection and forgets the reference; a second close() changes nothing  *)
(* and does not fail; a request made after close() goes out on a fresh,    *)
(* open connection                                                         *)
C10_CloseIdempotent ==
  /\ last.op = "close"
     => /\ ~last.raised
        /\ Ref(w) = 0
        /\ Len(w.conns) = last.pre.nconns
        /\ AllConnectionsClosed
        /\ last.pre.nconns = 0 => w.conns = <<>>
        /\ close(w) = Returned(w, None)
  /\ (last.op \in {"scrape", "scrape_async", "get_job_status", "get_usage"})
     => /\ Len(w.sent) = 1
        /\ w.sent[1].conn = Ref(w)
        /\ ~w.conns[w.sent[1].conn].is_closed
        /\ last.pre.ref = 0 => w.sent[1].conn = last.pre.nconns + 1

(* a request that follows a close(): the first connection is closed and    *)
(* the request went out on a second one                                    *)
C10_Witness ==
  /\ last.op = "scrape"
  /\ last.pre.ref = 0
  /\ last.pre.nconns = 1
  /\ w.conns[1].is_closed
  /\ w.sent[1].conn = 2
  /\ ~w.conns[2].is_closed

(* the remote outcome is a failure: a status outside 2xx, a timeout or a   *)
(* transport error                                                         *)
RemoteFailure(resp) ==
  \/ resp.kind \in {"timeout", "transport"}
  \/ resp.kind = "response" /\ ~(resp.status >= 200 /\ resp.status <= 299)

RaisingOps == {"scrape_async", "get_job_status", "batch_scrape", "get_usage"}

(* what the last operation produced, as the callee's result *)
LastResult == [raised |-> last.raised, exc |-> last.exc, value |-> last.value, w |-> w]

(* C11: scrape_async, get_job_status, batch_scrape and get_usage raise,    *)
(* and return no value, whenever the request they issued ends with an      *)
(* error status, a timeout or a transport failure, whereas scrape returns  *)
(* a failed result; the except clause of call_tool turns what they raised  *)
(* into the text "Error: " followed by the message of the exception        *)
C11_ClientRaisesToolAnswers ==
  /\ ( last.op \in RaisingOps /\ Len(w.sent) = 1 /\ RemoteFailure(last.resp) )
     => /\ last.raised
        /\ last.value = None
        /\ last.exc.type \in {"HTTPStatusError", "TimeoutException", "ConnectError"}
        /\ last.exc.msg = IF last.resp.kind = "response"
                            THEN <<"Error response ", ToString(last.resp.status)>>
                          ELSE last.resp.msg
        /\ call_tool_except(LastResult) = Returned(w, ErrorText(last.exc.msg))
  /\ ( last.op = "scrape" /\ RemoteFailure(last.resp) )
     => /\ ~last.raised
        /\ ~last.value.success

(* get_usage, called directly, met a 503 and raised; nothing was decoded *)
C11_Witness ==
  /\ last.op = "get_usage"
  /\ last.resp.kind = "response"
  /\ last.resp.status = 503
  /\ last.raised
  /\ last.exc.type = "HTTPStatusError"
  /\ ~w.parsed

(* a request body, or one entry of a batch, carries the target url and     *)
(* every option field with the value of the options record, or with the    *)
(* declared default when no record was passed                              *)
CarriesOptions(body, url, options) ==
  /\ (OptionFields \cup {"url"}) \subseteq DOMAIN body
  /\ body.url = url
  /\ \A k \in OptionFields :
       body[k] = IF options = None THEN OptionDefaults[k] ELSE options[1][k]

(* C12: the body of scrape, the body of scrape_async and every per-URL     *)
(* entry of batch_scrape contain the target url and each of the 16 option  *)
(* fields, with the value set in the options record or the declared        *)
(* default, also when no options record is passed                          *)
C12_BodyCarriesAllOptions ==
  /\ Cardinality(OptionFields) = 16
  /\ DOMAIN OptionDefaults = OptionFields
  /\ last.op \in {"scrape", "scrape_async"}
     => /\ Len(w.sent) = 1
        /\ CarriesOptions(w.sent[1].json[1], last.arguments.url,
                          last.arguments.options)
  /\ ( last.op = "batch_scrape" /\ Len(w.sent) = 1 )
     => /\ Len(w.sent[1].json[1].requests) = Len(last.arguments.urls)
        /\ \A i \in 1..Len(last.arguments.urls) :
             CarriesOptions(w.sent[1].json[1].requests[i], last.arguments.urls[i],
                            last.arguments.options)

(* scrape was called without an options record and its body went out with  *)
(* the declared defaults                                                   *)
C12_Witness ==
  /\ last.op = "scrape"
  /\ last.arguments.options = None
  /\ Len(w.sent) = 1
  /\ w.sent[1].json[1].timeout = 60
  /\ w.sent[1].json[1].session_ttl = 1800
  /\ w.sent[1].json[1].url = ExampleUrl

(* the job payload embeds a result (a non-empty object under "result") *)
EmbedsResult(resp) ==
  /\ "result" \in DOMAIN resp.json.d
  /\ resp.json.d.result # EmptyDict

MetadataLabels == {"Job ID: ", "Status: ", "URL: ", "Created: ", "Error: "}

(* C13: get_job_status, answered with a job payload, returns a text with   *)
(* the job id, the status, the url and the created timestamp; when the     *)
(* payload embeds a result the text also has a result section with the     *)
(* body of that result, and when it embeds none the text is the job        *)
(* metadata alone, with no result section                                  *)
C13_JobStatusFormatsResult ==
  ( /\ ToolCalled("get_job_status")
    /\ TruthyStr(GetOpt(last.arguments, "job_id"))
    /\ JobAccepted(last.resp) )
  => /\ ~last.raised
     /\ Len(w.sent) = 1
     /\ w.sent[1].url[3] = last.arguments.job_id
     /\ Len(TextOf(last.value)) >= 4
     /\ TextOf(last.value)[1] = <<"Job ID: ", last.resp.json.d.job_id>>
     /\ TextOf(last.value)[2] = <<"Status: ", last.resp.json.d.status>>
     /\ TextOf(last.value)[3] = <<"URL: ", last.resp.json.d.url>>
     /\ TextOf(last.value)[4] = <<"Created: ", last.resp.json.d.created_at>>
     /\ EmbedsResult(last.resp)
        => /\ Contains(TextOf(last.value), <<"--- Result ---">>)
           /\ Contains(TextOf(last.value), <<"--- Content ---">>)
           /\ TextOf(last.value)[Len(TextOf(last.value))]
                = <<Get(last.resp.json.d.result, "body", "")>>
     /\ ~EmbedsResult(last.resp)
        => \A i \in 1..Len(TextOf(last.value)) :
             TextOf(last.value)[i][1] \in MetadataLabels

(* a completed job came back with its result and the text ends with the    *)
(* body of that result                                                     *)
C13_Witness ==
  /\ ToolCalled("get_job_status")
  /\ JobAccepted(last.resp)
  /\ EmbedsResult(last.resp)
  /\ last.resp.json.d.result.body = "<html>job</html>"
  /\ Contains(TextOf(last.value), <<"--- Result ---">>)
  /\ Contains(TextOf(last.value), <<"<html>job</html>">>)

(* the invocation is one that the handler boundary or a handler rejects    *)
(* for its name or for a missing or empty required argument                *)
UnknownTool == last.op = "call_tool" /\ last.name \notin TOOL_HANDLERS

MissingUrl ==
  /\ last.op = "call_tool"
  /\ last.name \in {"scrape_url", "scrape_async"}
  /\ ~TruthyStr(GetOpt(last.arguments, "url"))

MissingJobId ==
  /\ ToolCalled("get_job_status")
  /\ ~TruthyStr(GetOpt(last.arguments, "job_id"))

MissingUrls ==
  /\ ToolCalled("batch_scrape")
  /\ Get(last.arguments, "urls", <<>>) = <<>>

(* C14: an invocation rejected before the client is reached issues no      *)
(* HTTP request and returns an error text: "Unknown tool" for a name that  *)
(* is not a tool, "url is required", "job_id is required" or "urls array   *)
(* is required" for a missing or empty required argument; a request is     *)
(* only ever issued for an invocation that passed these validations        *)
C14_RejectedBeforeClient ==
  /\ UnknownTool
     => /\ last.value = ErrorText(<<"Unknown tool '", last.name, "'">>)
        /\ NoRequestNoConnection
  /\ MissingUrl
     => /\ last.value = ErrorText(<<"url is required">>)
        /\ NoRequestNoConnection
  /\ MissingJobId
     => /\ last.value = ErrorText(<<"job_id is required">>)
        /\ NoRequestNoConnection
  /\ MissingUrls
     => /\ last.value = ErrorText(<<"urls array is required">>)
        /\ NoRequestNoConnection
  /\ ( last.op = "call_tool" /\ w.sent # <<>> )
     => ~(UnknownTool \/ MissingUrl \/ MissingJobId \/ MissingUrls)

(* get_job_status was invoked without a job_id while a connection was      *)
(* already open, and answered without using it                             *)
C14_Witness ==
  /\ MissingJobId
  /\ last.pre.nconns = 1
  /\ w.sent = <<>>
  /\ IsErrorReply(last.value)

(* C15: nothing is retried locally: a tool invocation, and a direct batch  *)
(* submission with any max_retries in its options record, issues at most   *)
(* one HTTP request whatever the remote outcome, and max_retries only      *)
(* appears as a field of the request body                                  *)
C15_NoLocalRetry ==
  /\ last.op \in {"call_tool", "batch_scrape"}
     => /\ Len(w.sent) <= 1
        /\ Len(w.conns) <= last.pre.nconns + 1
  /\ ( last.op = "batch_scrape" /\ Len(w.sent) = 1 )
     => \A i \in 1..Len(last.arguments.urls) :
          w.sent[1].json[1].requests[i].max_retries
            = IF last.arguments.options = None
                THEN OptionDefaults.max_retries
              ELSE last.arguments.options[1].max_retries
  /\ ( ToolCalled("batch_scrape") /\ Len(w.sent) = 1 )
     => \A i \in 1..Len(last.arguments.urls) :
          w.sent[1].json[1].requests[i].max_retries = OptionDefaults.max_retries

(* a batch submitted with max_retries = 2 timed out after its one request  *)
C15_Witness ==
  /\ last.op = "batch_scrape"
  /\ last.arguments.options # None
  /\ last.arguments.options[1].max_retries = 2
  /\ last.resp.kind = "timeout"
  /\ last.raised
  /\ Len(w.sent) = 1
  /\ w.sent[1].json[1].requests[1].max_retries = 2

OpenConns == {i \in 1..Len(w.conns) : ~w.conns[i].is_closed}

(* C16: however requests and close() calls on the shared client            *)
(* interleave, at most one connection created by the client is open and    *)
(* every open connection is the one the client references: none is left    *)
(* open and unreferenced                                                   *)
C16_NoLeakedConnection ==
  /\ Cardinality(OpenConns) <= 1
  /\ \A i \in OpenConns : i = Ref(w)

====
